---- MODULE Spec2Model ----
(***************************************************************************)
(* A model of the gophish header-profile resolver, template context        *)
(* builder, template engine and template persistence calls                 *)
(* (models/template.go, models/template_context.go).                       *)
(*                                                                         *)
(* Strings are sequences of lexemes.  A lexeme is a TLA+ string that       *)
(* stands for a run of characters holding no delimiter the code looks at   *)
(* ("example.com", "http"); every character the code does look at          *)
(* ("/", ".", "?", "&", "=", "<", "{{", ...) is a lexeme of its own.         *)
(***************************************************************************)
EXTENDS Integers, Sequences, FiniteSets, TLC

VARIABLES
    registry,   \* PredefinedHeaderProfiles: profile key -> HeaderProfile
    heap,       \* Go map objects: reference -> (key -> value)
    now,        \* the clock: time.Now().UnixNano() for the resolver
    gor,        \* goroutine -> the locals of its GetHeadersForProfile call
    returned,   \* results handed back to callers: <<headers ref, boundary>>
    ncalls,     \* number of GetHeadersForProfile calls started
    minute,     \* the wall clock time.Now() in minutes since midnight
    phish,      \* the NewPhishingTemplateContext call in progress and its result
    validated,  \* template text -> the outcomes ValidateTemplate has given for it
    templates,  \* the templates table: id -> row
    attachments,\* the attachments table: a set of rows
    request     \* the PostTemplate / PutTemplate call in progress and its result

hvars == <<registry, heap, now, gor, returned, ncalls>>
cvars == <<minute, phish>>
vvars == <<validated>>
tvars == <<templates, attachments, request>>
vars == <<hvars, cvars, vvars, tvars>>

----------------------------------------------------------------------------
(* Bounds *)

MaxCalls == 2
MaxClock == 1

----------------------------------------------------------------------------
(* Small helpers *)

Range(s) == {s[i] : i \in 1..Len(s)}

S(x) == <<x>>

EmptyMap == <<>>

MapSet(m, k, v) == [x \in (DOMAIN m) \cup {k} |-> IF x = k THEN v ELSE m[x]]

MapDelete(m, k) == [x \in (DOMAIN m) \ {k} |-> m[x]]

----------------------------------------------------------------------------
(* Header profile registry *)

NilMap == 0

RefDefault == 1
RefAppleMail == 2
RefOutlook == 3
RefGmailWeb == 4
RefYahooWeb == 5

PredefinedHeaderProfiles ==
    [k \in {"default", "apple_mail", "outlook", "gmail_web", "yahoo_web"} |->
        CASE k = "default"    -> [Name |-> "Default (Gophish)", Headers |-> RefDefault]
          [] k = "apple_mail" -> [Name |-> "Apple Mail (macOS)", Headers |-> RefAppleMail]
          [] k = "outlook"    -> [Name |-> "Microsoft Outlook (Desktop)", Headers |-> RefOutlook]
          [] k = "gmail_web"  -> [Name |-> "Gmail (Web Interface)", Headers |-> RefGmailWeb]
          [] k = "yahoo_web"  -> [Name |-> "Yahoo Mail (Web Interface)", Headers |-> RefYahooWeb]]

PredefinedHeaders ==
    [r \in RefDefault..RefYahooWeb |->
        CASE r = RefDefault   -> [k \in {"MIME-Version"} |-> S("1.0")]
          [] r = RefAppleMail ->
                [k \in {"MIME-Version", "X-Mailer"} |->
                    IF k = "MIME-Version"
                    THEN S("1.0 (Mac OS X Mail 11.5 (3445.9.1))")
                    ELSE S("Apple Mail (2.3445.9.1)")]
          [] r = RefOutlook   ->
                [k \in {"MIME-Version", "X-Mailer", "Content-Language",
                        "x-ms-has-attach", "x-ms-tnef-correlator"} |->
                    CASE k = "MIME-Version"     -> S("1.0")
                      [] k = "X-Mailer"         -> S("Microsoft Outlook 16.0")
                      [] k = "Content-Language" -> S("en-us")
                      [] OTHER                  -> <<>>]
          [] r = RefGmailWeb  -> [k \in {"MIME-Version"} |-> S("1.0")]
          [] r = RefYahooWeb  -> [k \in {"MIME-Version"} |-> S("1.0")]]

ZeroHeaderProfile == [Name |-> "", Headers |-> NilMap]

\* The profile names callers pass: the registry's keys, the empty string and
\* names that are no key (a stale name, a key in another case).
ProfileNames ==
    {"default", "apple_mail", "outlook", "gmail_web", "yahoo_web",
     "", "thunderbird"}

----------------------------------------------------------------------------
(* generateBoundary *)

charset ==
    <<"a","b","c","d","e","f","g","h","i","j","k","l","m",
      "n","o","p","q","r","s","t","u","v","w","x","y","z",
      "A","B","C","D","E","F","G","H","I","J","K","L","M",
      "N","O","P","Q","R","S","T","U","V","W","X","Y","Z",
      "0","1","2","3","4","5","6","7","8","9">>

length == 30

\* math/rand is outside the repository.  What generateBoundary relies on is
\* that rand.New(rand.NewSource(seed)) is a deterministic generator: the
\* numbers it yields are a function of the seed alone.  The generator is
\* modelled by a linear congruential step (TLC's integers are 32 bits, so a
\* 16-bit modulus stands for the library's 2^31-1).
RandModulus == 65537
RandMultiplier == 75
RandIncrement == 74

NewSource(seed) == seed % RandModulus

RandNext(x) == (RandMultiplier * x + RandIncrement) % RandModulus

\* seededRand.Intn(n)
Intn(x, n) == x % n

RECURSIVE FillBoundary(_, _)
FillBoundary(x, n) ==
    IF n = 0 THEN <<>>
    ELSE LET y == RandNext(x)
         IN  <<charset[Intn(y, Len(charset)) + 1]>> \o FillBoundary(y, n - 1)

generateBoundaryShort(clock) == SubSeq(FillBoundary(NewSource(clock), length), 1, length - 1)

\* generateBoundary's value at every clock value of the model, computed once
BoundaryAt == [c \in 0..MaxClock |-> FillBoundary(NewSource(c), length)]

generateBoundary(clock) == BoundaryAt[clock]

----------------------------------------------------------------------------
(* GetHeadersForProfile, one step for each access to shared state *)

Procs == {"g1", "g2"}

IdleCall ==
    [pc |-> "idle", arg |-> "", profileName |-> "", profile |-> ZeroHeaderProfile,
     headers |-> NilMap, boundary |-> <<>>, err |-> "nil"]

\* lines 106-111: the lookup and the fallback to "default"
ResolveNoFallback(reg, name) ==
    IF name \in DOMAIN reg
    THEN [profileName |-> name, profile |-> reg[name]]
    ELSE [profileName |-> name, profile |-> ZeroHeaderProfile]

ResolveProfile(reg, name) ==
    LET ok == name \in DOMAIN reg
    IN  IF ~ok \/ name = ""
        THEN [profileName |-> "default",
              profile |-> IF "default" \in DOMAIN reg
                          THEN reg["default"] ELSE ZeroHeaderProfile]
        ELSE [profileName |-> name, profile |-> reg[name]]

\* make(map[string]string): a reference no live map has
NewRef(h) == CHOOSE r \in 1..(Cardinality(DOMAIN h) + 1) : r \notin DOMAIN h

\* reading a Go map through a reference; ranging over a nil map yields nothing
Deref(h, ref) == IF ref = NilMap THEN EmptyMap ELSE h[ref]

\* lines 114-117: headers := make(map); for k, v := range profile.Headers
\* The result is the reference the local `headers` holds and the heap after.
AliasHeaders(h, src, fresh) == [ref |-> src, heap |-> h]

CopyHeaders(h, src, fresh) ==
    [ref  |-> fresh,
     heap |-> [r \in (DOMAIN h) \cup {fresh} |->
                  IF r = fresh THEN Deref(h, src) ELSE h[r]]]

NextPart == S("----=_NextPart_")
AppleMailPrefix == S("Apple-Mail=_")

\* line 125: fmt.Sprintf("multipart/alternative; boundary=\"%s\"", boundary)
ContentType(boundary) ==
    S("multipart/alternative; boundary=\"") \o boundary \o S("\"")

\* lines 105-117: the registry and the profile's map are read
Call(p, name) ==
    /\ gor[p].pc = "idle"
    /\ ncalls < MaxCalls
    /\ ncalls' = ncalls + 1
    /\ LET r == ResolveProfile(registry, name)
           c == CopyHeaders(heap, r.profile.Headers, NewRef(heap))
       IN  /\ heap' = c.heap
           /\ gor' = [gor EXCEPT ![p] =
                         [pc |-> "l120", arg |-> name,
                          profileName |-> r.profileName, profile |-> r.profile,
                          headers |-> c.ref, boundary |-> <<>>, err |-> "nil"]]
    /\ UNCHANGED <<registry, now, returned, cvars, vvars, tvars>>

\* line 125
SetContentType(h, ref, boundary) ==
    [h EXCEPT ![ref] = MapSet(h[ref], "Content-Type", ContentType(boundary))]

\* line 120: the clock is read; for a profile other than apple_mail the call
\* runs on to line 125
Boundary(p) ==
    /\ gor[p].pc = "l120"
    /\ LET b == NextPart \o generateBoundary(now)
       IN  IF gor[p].profileName = "apple_mail"
           THEN /\ gor' = [gor EXCEPT ![p].pc = "l122", ![p].boundary = b]
                /\ heap' = heap
           ELSE /\ gor' = [gor EXCEPT ![p].pc = "l127", ![p].boundary = b]
                /\ heap' = SetContentType(heap, gor[p].headers, b)
    /\ UNCHANGED <<registry, now, returned, ncalls, cvars, vvars, tvars>>

\* lines 121-125 for apple_mail: the clock is read a second time
AppleBoundary(p) ==
    /\ gor[p].pc = "l122"
    /\ LET b == AppleMailPrefix \o generateBoundary(now)
       IN  /\ gor' = [gor EXCEPT ![p].pc = "l127", ![p].boundary = b]
           /\ heap' = SetContentType(heap, gor[p].headers, b)
    /\ UNCHANGED <<registry, now, returned, ncalls, cvars, vvars, tvars>>

\* line 127: the map and the token are the caller's from here on
Return(p) ==
    /\ gor[p].pc = "l127"
    /\ returned' = Append(returned, [arg |-> gor[p].arg, headers |-> gor[p].headers,
                                    boundary |-> gor[p].boundary, err |-> gor[p].err])
    /\ gor' = [gor EXCEPT ![p] = IdleCall]
    /\ UNCHANGED <<registry, heap, now, ncalls, cvars, vvars, tvars>>

\* time.Now() advances between any two steps, or does not
Tick ==
    /\ now < MaxClock
    /\ now' = now + 1
    /\ UNCHANGED <<registry, heap, gor, returned, ncalls, cvars, vvars, tvars>>

\* A caller writes to a header map it was given: it overwrites one header,
\* deletes another and adds a third.
CallerModifies(i) ==
    /\ i \in 1..Len(returned)
    /\ "X-Caller" \notin DOMAIN heap[returned[i].headers]
    /\ heap' = [heap EXCEPT ![returned[i].headers] =
                   MapSet(MapSet(MapDelete(@, "Content-Type"),
                                 "MIME-Version", S("changed by caller")),
                          "X-Caller", S("added by caller"))]
    /\ UNCHANGED <<registry, now, gor, returned, ncalls, cvars, vvars, tvars>>

HInit ==
    /\ registry = PredefinedHeaderProfiles
    /\ heap = PredefinedHeaders
    /\ now = 0
    /\ gor = [p \in Procs |-> IdleCall]
    /\ returned = <<>>
    /\ ncalls = 0

HNext ==
    \/ \E p \in Procs, name \in ProfileNames : Call(p, name)
    \/ \E p \in Procs : Boundary(p)
    \/ \E p \in Procs : AppleBoundary(p)
    \/ \E p \in Procs : Return(p)
    \/ Tick
    \/ \E i \in 1..MaxCalls : CallerModifies(i)

----------------------------------------------------------------------------
(* Strings as lexeme sequences *)

\* strings.Index for one lexeme: the first position of x in s, 0 when absent
RECURSIVE IndexFrom(_, _, _)
IndexFrom(s, x, i) ==
    IF i > Len(s) THEN 0
    ELSE IF s[i] = x THEN i
    ELSE IndexFrom(s, x, i + 1)

Index(s, x) == IndexFrom(s, x, 1)

Contains(s, x) == Index(s, x) # 0

\* strings.Cut(s, sep)
Cut(s, sep) ==
    LET i == Index(s, sep)
    IN  IF i = 0 THEN [before |-> s, after |-> <<>>, found |-> FALSE]
        ELSE [before |-> SubSeq(s, 1, i - 1), after |-> SubSeq(s, i + 1, Len(s)), found |-> TRUE]

HasPrefix(s, pre) == Len(s) >= Len(pre) /\ SubSeq(s, 1, Len(pre)) = pre

RECURSIVE Flatten(_)
Flatten(ss) == IF ss = <<>> THEN <<>> ELSE Head(ss) \o Flatten(Tail(ss))

\* strings.Join(words, sep)
RECURSIVE Join(_, _)
Join(words, sep) ==
    IF words = <<>> THEN <<>>
    ELSE IF Len(words) = 1 THEN words[1]
    ELSE words[1] \o sep \o Join(Tail(words), sep)

----------------------------------------------------------------------------
(* net/mail: ParseAddress *)

\* Lexemes of address strings.  An atom lexeme is a run of atext characters
\* and dots; a quoted lexeme is one quoted-string, with its content.
EncodedWord == "=?utf-8?q?Bob?="

AddrAtoms == {"Bob", "Smith", "foo", "bar.com", EncodedWord}

QuotedContent ==
    [q \in {"\"Bob Smith\"", "\"\""} |->
        IF q = "\"\"" THEN <<>> ELSE <<"Bob", " ", "Smith">>]

IsQuoted(x) == x \in DOMAIN QuotedContent

\* p.skipSpace()
RECURSIVE SkipSpace(_)
SkipSpace(s) ==
    IF s # <<>> /\ Head(s) = " " THEN SkipSpace(Tail(s)) ELSE s

\* the length of the run of atext at the start of s
RECURSIVE AtomRun(_)
AtomRun(s) ==
    IF s # <<>> /\ Head(s) \in AddrAtoms THEN 1 + AtomRun(Tail(s)) ELSE 0

Failed == [ok |-> FALSE, val |-> <<>>, rest |-> <<>>]

\* p.consumeAtom(true, permissive)
consumeAtom(s) ==
    LET n == AtomRun(s)
    IN  IF n = 0 THEN Failed
        ELSE [ok |-> TRUE, val |-> SubSeq(s, 1, n), rest |-> SubSeq(s, n + 1, Len(s))]

\* p.consumeQuotedString()
consumeQuotedString(s) ==
    IF s # <<>> /\ IsQuoted(Head(s))
    THEN [ok |-> TRUE, val |-> QuotedContent[Head(s)], rest |-> Tail(s)]
    ELSE Failed

\* the local part of an addr-spec: a quoted string that is not empty, or an atom
consumeLocalPart(s) ==
    IF s # <<>> /\ IsQuoted(Head(s))
    THEN IF QuotedContent[Head(s)] = <<>> THEN Failed ELSE consumeQuotedString(s)
    ELSE consumeAtom(s)

\* the addr-spec of a local part and a domain
addrSpecOf(localPart, domain) ==
    IF ~domain.ok THEN Failed
    ELSE [ok |-> TRUE, val |-> localPart.val \o <<"@">> \o domain.val, rest |-> domain.rest]

\* "@" and the domain that follow a local part
consumeDomain(localPart) ==
    IF ~localPart.ok \/ localPart.rest = <<>> \/ Head(localPart.rest) # "@" THEN Failed
    ELSE addrSpecOf(localPart, consumeAtom(SkipSpace(Tail(localPart.rest))))

\* p.consumeAddrSpec(): local-part "@" domain
consumeAddrSpec(s) == consumeDomain(consumeLocalPart(SkipSpace(s)))

\* RFC 2047 decoding of a word of a phrase
DecodeWord(w) == IF w = <<EncodedWord>> THEN <<"Bob">> ELSE w

\* the words of p.consumePhrase(), and what is left after them
RECURSIVE PhraseWords(_)

\* an atom of a phrase, decoded
decodeAtom(a) == IF a.ok THEN [a EXCEPT !.val = DecodeWord(a.val)] ELSE a

\* one word of a phrase: a quoted string or an atom
consumeWord(s) ==
    IF s # <<>> /\ IsQuoted(Head(s)) THEN consumeQuotedString(s)
    ELSE decodeAtom(consumeAtom(s))

PrependWord(word, more) ==
    [words |-> <<word.val>> \o more.words, rest |-> more.rest]

WordsFrom(s1, word) ==
    IF s1 = <<>> \/ ~word.ok THEN [words |-> <<>>, rest |-> s1]
    ELSE PrependWord(word, PhraseWords(word.rest))

PhraseWords(s) == WordsFrom(SkipSpace(s), consumeWord(SkipSpace(s)))

phraseOf(w) ==
    IF w.words = <<>> THEN Failed
    ELSE [ok |-> TRUE, val |-> Join(w.words, <<" ">>), rest |-> w.rest]

\* p.consumePhrase(): the words joined by single spaces
consumePhrase(s) == phraseOf(PhraseWords(s))

NoAddress == [ok |-> FALSE, Name |-> <<>>, Address |-> <<>>, rest |-> <<>>]

\* the address between angle brackets, closed by ">"
angleAddress(name, inner) ==
    IF ~inner.ok \/ inner.rest = <<>> \/ Head(inner.rest) # ">" THEN NoAddress
    ELSE [ok |-> TRUE, Name |-> name, Address |-> inner.val, rest |-> Tail(inner.rest)]

\* "<" addr-spec ">" after the display name
namedAddress(phrase) ==
    IF ~phrase.ok \/ SkipSpace(phrase.rest) = <<>> \/ Head(SkipSpace(phrase.rest)) # "<"
    THEN NoAddress
    ELSE angleAddress(phrase.val, consumeAddrSpec(Tail(SkipSpace(phrase.rest))))

addressFrom(s1, spec) ==
    IF s1 = <<>> THEN NoAddress
    ELSE IF spec.ok
    THEN [ok |-> TRUE, Name |-> <<>>, Address |-> spec.val, rest |-> SkipSpace(spec.rest)]
    ELSE namedAddress(IF Head(s1) # "<" THEN consumePhrase(s1)
                      ELSE [ok |-> TRUE, val |-> <<>>, rest |-> s1])

\* p.parseAddress(): addr-spec, or [display-name] "<" addr-spec ">"
parseAddress(s) == addressFrom(SkipSpace(s), consumeAddrSpec(SkipSpace(s)))

\* p.parseSingleAddress(): nothing but space may follow the address
singleAddress(a) ==
    IF a.ok /\ SkipSpace(a.rest) = <<>>
    THEN [ok |-> TRUE, Name |-> a.Name, Address |-> a.Address]
    ELSE [ok |-> FALSE, Name |-> <<>>, Address |-> <<>>]

\* mail.ParseAddress(address): one address and nothing after it
ParseAddress(address) == singleAddress(parseAddress(address))

----------------------------------------------------------------------------
(* text/template as ExecuteTemplate uses it *)

\* Lexemes of template bodies: the delimiters, field references, identifiers
\* and string literals; every other lexeme is literal text.
FieldName ==
    [f \in {".From", ".URL", ".Tracker", ".TrackingURL", ".RId", ".BaseURL",
            ".Email", ".FirstName", ".LastName", ".Position", ".Unknown"} |->
        CASE f = ".From"        -> "From"
          [] f = ".URL"         -> "URL"
          [] f = ".Tracker"     -> "Tracker"
          [] f = ".TrackingURL" -> "TrackingURL"
          [] f = ".RId"         -> "RId"
          [] f = ".BaseURL"     -> "BaseURL"
          [] f = ".Email"       -> "Email"
          [] f = ".FirstName"   -> "FirstName"
          [] f = ".LastName"    -> "LastName"
          [] f = ".Position"    -> "Position"
          [] f = ".Unknown"     -> "Unknown"]

StringLiteral ==
    [l \in {"\"00:00\"", "\"\""} |-> IF l = "\"\"" THEN <<>> ELSE <<"00", ":", "00">>]

\* funcMap of ExecuteTemplate
funcMap == {"hora"}

\* an operand of a pipeline: a field, a string constant or a call of a
\* function without arguments; any other identifier is "function not defined"
IsOperand(x) ==
    x \in DOMAIN FieldName \/ x \in DOMAIN StringLiteral \/ x \in funcMap

\* the pipeline of an action: one operand, or eq with two operands
ParsePipeline(toks) ==
    IF Len(toks) = 1 /\ IsOperand(toks[1])
    THEN [ok |-> TRUE, op |-> "value", args |-> toks]
    ELSE IF Len(toks) = 3 /\ toks[1] = "eq" /\ IsOperand(toks[2]) /\ IsOperand(toks[3])
    THEN [ok |-> TRUE, op |-> "eq", args |-> Tail(toks)]
    ELSE [ok |-> FALSE, op |-> "", args |-> <<>>]

RECURSIVE DropSpaces(_)
DropSpaces(s) ==
    IF s = <<>> THEN <<>>
    ELSE IF Head(s) = " " THEN DropSpaces(Tail(s))
    ELSE <<Head(s)>> \o DropSpaces(Tail(s))

ParseFailed == [ok |-> FALSE, nodes |-> <<>>, rest |-> <<>>, closed |-> FALSE]

\* template.Parse: the node list up to the end of the text or to an {{end}}
RECURSIVE ParseList(_)
ParseList(toks) ==
    IF toks = <<>>
    THEN [ok |-> TRUE, nodes |-> <<>>, rest |-> <<>>, closed |-> FALSE]
    ELSE IF Head(toks) # "{{"
    THEN LET more == ParseList(Tail(toks))
         IN  IF ~more.ok THEN ParseFailed
             ELSE [more EXCEPT !.nodes = <<[kind |-> "text", text |-> Head(toks)]>> \o @]
    ELSE LET j == Index(toks, "}}")
             action == DropSpaces(SubSeq(toks, 2, j - 1))
             rest == SubSeq(toks, j + 1, Len(toks))
         IN  IF j = 0 \/ action = <<>> THEN ParseFailed
             ELSE IF action = <<"end">>
             THEN [ok |-> TRUE, nodes |-> <<>>, rest |-> rest, closed |-> TRUE]
             ELSE IF Head(action) = "if"
             THEN LET pipe == ParsePipeline(Tail(action))
                      body == ParseList(rest)
                  IN  IF ~pipe.ok \/ ~body.ok \/ ~body.closed THEN ParseFailed
                      ELSE LET more == ParseList(body.rest)
                           IN  IF ~more.ok THEN ParseFailed
                               ELSE [more EXCEPT !.nodes =
                                        <<[kind |-> "if", pipe |-> pipe, body |-> body.nodes]>> \o @]
             ELSE LET pipe == ParsePipeline(action)
                  IN  IF ~pipe.ok THEN ParseFailed
                      ELSE LET more == ParseList(rest)
                           IN  IF ~more.ok THEN ParseFailed
                               ELSE [more EXCEPT !.nodes =
                                        <<[kind |-> "action", pipe |-> pipe]>> \o @]

\* a parsed list is a template when no {{end}} is left over
templateOf(t) ==
    IF t.ok /\ ~t.closed THEN [ok |-> TRUE, nodes |-> t.nodes]
    ELSE [ok |-> FALSE, nodes |-> <<>>]

\* template.New("gophish_template").Funcs(funcMap).Parse(text)
ParseTemplate(text) == templateOf(ParseList(text))

Pad2(n) == IF n < 10 THEN "0" \o ToString(n) ELSE ToString(n)

MinutesPerDay == 1440

\* currentTimeHHMM(): time.Now().Format("15:04"), the clock counted in
\* minutes since midnight
currentTimeHHMM(clock) == <<Pad2(clock \div 60), ":", Pad2(clock % 60)>>

\* the value of one operand against data (a struct as field name -> value)
EvalOperand(x, data, clock) ==
    IF x \in DOMAIN FieldName
    THEN IF FieldName[x] \in DOMAIN data
         THEN [ok |-> TRUE, val |-> data[FieldName[x]]]
         ELSE [ok |-> FALSE, val |-> <<>>]
    ELSE IF x \in DOMAIN StringLiteral
    THEN [ok |-> TRUE, val |-> StringLiteral[x]]
    ELSE [ok |-> TRUE, val |-> currentTimeHHMM(clock)]

\* a pipeline's value and its truth (a non-empty string, a true boolean)
EvalPipeline(pipe, data, clock) ==
    LET a == EvalOperand(pipe.args[1], data, clock)
    IN  IF pipe.op = "value"
        THEN [ok |-> a.ok, val |-> a.val, truth |-> a.val # <<>>]
        ELSE LET b == EvalOperand(pipe.args[2], data, clock)
             IN  [ok |-> a.ok /\ b.ok,
                  val |-> IF a.val = b.val THEN <<"true">> ELSE <<"false">>,
                  truth |-> a.val = b.val]

\* tmpl.Execute(&buff, data)
RECURSIVE Exec(_, _, _)

\* the output of an action or an if, given the value of its pipeline
nodeOutput(n, v, data, clock) ==
    IF ~v.ok THEN [ok |-> FALSE, out |-> <<>>]
    ELSE IF n.kind = "action" THEN [ok |-> TRUE, out |-> v.val]
    ELSE IF v.truth THEN Exec(n.body, data, clock)
    ELSE [ok |-> TRUE, out |-> <<>>]

\* the output of one node: text, an action, or an if with its body
ExecNode(n, data, clock) ==
    IF n.kind = "text" THEN [ok |-> TRUE, out |-> <<n.text>>]
    ELSE nodeOutput(n, EvalPipeline(n.pipe, data, clock), data, clock)

appendOutput(first, more) ==
    IF ~more.ok THEN more ELSE [ok |-> TRUE, out |-> first.out \o more.out]

\* execution stops at the first node that fails
execRest(first, rest, data, clock) ==
    IF ~first.ok THEN first ELSE appendOutput(first, Exec(rest, data, clock))

Exec(nodes, data, clock) ==
    IF nodes = <<>> THEN [ok |-> TRUE, out |-> <<>>]
    ELSE execRest(ExecNode(Head(nodes), data, clock), Tail(nodes), data, clock)

executed(e) ==
    IF ~e.ok THEN [err |-> "error executing template", out |-> <<>>]
    ELSE [err |-> "nil", out |-> e.out]

executeParsed(tmpl, data, clock) ==
    IF ~tmpl.ok THEN [err |-> "error parsing template", out |-> <<>>]
    ELSE executed(Exec(tmpl.nodes, data, clock))

ExecuteTemplate(text, data, clock) == executeParsed(ParseTemplate(text), data, clock)

----------------------------------------------------------------------------
(* path: Clean and Join.  "/" and "." are lexemes of their own. *)

At0(s, i) == s[i + 1]

\* out.w-- ; for out.w > dotdot && out.index(out.w) != '/' { out.w-- }
RECURSIVE Backtrack(_, _, _)
Backtrack(out, w, dotdot) ==
    IF w > dotdot /\ At0(out, w) # "/" THEN Backtrack(out, w - 1, dotdot) ELSE w

\* the end of the path element that starts at r
RECURSIVE ElementEnd(_, _)
ElementEnd(path, r) ==
    IF r < Len(path) /\ At0(path, r) # "/" THEN ElementEnd(path, r + 1) ELSE r

RECURSIVE CleanLoop(_, _, _, _, _)
CleanLoop(path, rooted, r, out, dotdot) ==
    LET n == Len(path)
    IN  IF r >= n THEN out
        ELSE IF At0(path, r) = "/"
        THEN CleanLoop(path, rooted, r + 1, out, dotdot)
        ELSE IF At0(path, r) = "." /\ (r + 1 = n \/ At0(path, r + 1) = "/")
        THEN CleanLoop(path, rooted, r + 1, out, dotdot)
        ELSE IF /\ At0(path, r) = "."
                /\ At0(path, r + 1) = "."
                /\ (r + 2 = n \/ At0(path, r + 2) = "/")
        THEN IF Len(out) > dotdot
             THEN CleanLoop(path, rooted, r + 2,
                            SubSeq(out, 1, Backtrack(out, Len(out) - 1, dotdot)), dotdot)
             ELSE IF ~rooted
             THEN LET o == (IF Len(out) > 0 THEN out \o <<"/">> ELSE out) \o <<".", ".">>
                  IN  CleanLoop(path, rooted, r + 2, o, Len(o))
             ELSE CleanLoop(path, rooted, r + 2, out, dotdot)
        ELSE LET e == ElementEnd(path, r)
                 sep == IF (rooted /\ Len(out) # 1) \/ (~rooted /\ Len(out) # 0)
                        THEN <<"/">> ELSE <<>>
             IN  CleanLoop(path, rooted, e, out \o sep \o SubSeq(path, r + 1, e), dotdot)

\* path.Clean
Clean(path) ==
    IF path = <<>> THEN <<".">>
    ELSE LET rooted == Head(path) = "/"
             out == IF rooted THEN CleanLoop(path, TRUE, 1, <<"/">>, 1)
                    ELSE CleanLoop(path, FALSE, 0, <<>>, 0)
         IN  IF out = <<>> THEN <<".">> ELSE out

\* a bug path.Join does not have: the two elements written one after the other
ConcatJoin(a, b) == a \o b

\* path.Join(a, b)
PathJoin(a, b) ==
    IF a = <<>> /\ b = <<>> THEN <<>>
    ELSE Clean(IF a = <<>> THEN b ELSE IF b = <<>> THEN a ELSE a \o <<"/">> \o b)

----------------------------------------------------------------------------
(* net/url *)

\* The characters net/url escapes, each with its percent code.  Every lexeme
\* that is neither one of these nor a percent code is a run of unreserved
\* characters.
Percent ==
    [c \in {" ", "=", "&", "/", ":", "@", "?", "#", "+"} |->
        CASE c = " " -> "%20"
          [] c = "=" -> "%3D"
          [] c = "&" -> "%26"
          [] c = "/" -> "%2F"
          [] c = ":" -> "%3A"
          [] c = "@" -> "%40"
          [] c = "?" -> "%3F"
          [] c = "#" -> "%23"
          [] c = "+" -> "%2B"]

\* a percent sign that no two hex digits follow
InvalidEscape == "%zz"

\* the percent code of an unreserved character
EscapedA == "%41"

PercentCodes == {Percent[c] : c \in DOMAIN Percent} \cup {EscapedA}

PercentDecode(x) ==
    IF x = EscapedA THEN "A" ELSE CHOOSE c \in DOMAIN Percent : Percent[c] = x

\* shouldEscape(c, mode)
shouldEscape(c, mode) ==
    /\ c \in DOMAIN Percent
    /\ CASE mode = "path"     -> c \in {" ", "?", "#"}
         [] mode = "host"     -> c \in {" ", "/", "?", "@", "#"}
         [] mode = "fragment" -> c \in {" ", "#"}
         [] mode = "query"    -> TRUE

\* escape(s, mode)
escape(s, mode) ==
    [i \in 1..Len(s) |->
        IF shouldEscape(s[i], mode)
        THEN IF mode = "query" /\ s[i] = " " THEN "+" ELSE Percent[s[i]]
        ELSE s[i]]

\* unescape(s, mode)
unescape(s, mode) ==
    LET bad(x) == \/ x = InvalidEscape
                  \/ mode = "host" /\ (x \in PercentCodes \/ shouldEscape(x, "host"))
    IN  IF \E i \in 1..Len(s) : bad(s[i])
        THEN [ok |-> FALSE, val |-> <<>>]
        ELSE [ok |-> TRUE,
              val |-> [i \in 1..Len(s) |->
                          IF s[i] \in PercentCodes THEN PercentDecode(s[i])
                          ELSE IF mode = "query" /\ s[i] = "+" THEN " "
                          ELSE s[i]]]

\* validEncoded(s, encodePath)
validEncoded(s) ==
    \A i \in 1..Len(s) :
        s[i] \in PercentCodes \/ s[i] = InvalidEscape \/ ~shouldEscape(s[i], "path")

\* Lexemes that begin with a digit, and the dot: getScheme takes them
\* anywhere but first.
DigitWords == {Pad2(n) : n \in 0..59} \cup {"1", "80"}

SchemeLater == DigitWords \cup {"."}

NotInScheme == (DOMAIN Percent) \cup PercentCodes \cup {InvalidEscape}

\* getScheme(rawURL): state is "scheme", "none" or "error"
RECURSIVE getSchemeFrom(_, _)
getSchemeFrom(s, i) ==
    IF i > Len(s) THEN [state |-> "none", scheme |-> <<>>, rest |-> s]
    ELSE IF s[i] = ":"
    THEN IF i = 1 THEN [state |-> "error", scheme |-> <<>>, rest |-> <<>>]
         ELSE [state |-> "scheme", scheme |-> SubSeq(s, 1, i - 1),
               rest |-> SubSeq(s, i + 1, Len(s))]
    ELSE IF s[i] \in SchemeLater
    THEN IF i = 1 THEN [state |-> "none", scheme |-> <<>>, rest |-> s]
         ELSE getSchemeFrom(s, i + 1)
    ELSE IF s[i] \in NotInScheme
    THEN [state |-> "none", scheme |-> <<>>, rest |-> s]
    ELSE getSchemeFrom(s, i + 1)

getScheme(s) == getSchemeFrom(s, 1)

RECURSIVE LastIndexFrom(_, _, _)
LastIndexFrom(s, x, i) ==
    IF i = 0 THEN 0 ELSE IF s[i] = x THEN i ELSE LastIndexFrom(s, x, i - 1)

LastIndex(s, x) == LastIndexFrom(s, x, Len(s))

Count(s, x) == Cardinality({i \in 1..Len(s) : s[i] = x})

\* parseHost(host): an optional port of digits, then the host's escapes
parseHost(host) ==
    LET i == LastIndex(host, ":")
        port == SubSeq(host, i + 1, Len(host))
        portOK == i = 0 \/ \A k \in 1..Len(port) : port[k] \in DigitWords
        h == unescape(host, "host")
    IN  IF portOK /\ h.ok THEN [ok |-> TRUE, val |-> h.val]
        ELSE [ok |-> FALSE, val |-> <<>>]

\* the authority of a userinfo, if there is one, and a parsed host
authorityOf(hasUser, userinfo, host) ==
    LET userOK == \A k \in 1..Len(userinfo) :
                      userinfo[k] \notin {" ", "/", "?", "#", "@", ":", InvalidEscape}
    IN  IF ~host.ok \/ ~userOK
        THEN [ok |-> FALSE, hasUser |-> FALSE, user |-> <<>>, host |-> <<>>]
        ELSE [ok |-> TRUE, hasUser |-> hasUser, user |-> userinfo, host |-> host.val]

\* parseAuthority(authority): [userinfo "@"] host
parseAuthority(authority) ==
    LET i == LastIndex(authority, "@")
    IN  authorityOf(i # 0, SubSeq(authority, 1, i - 1),
                    parseHost(SubSeq(authority, i + 1, Len(authority))))

ZeroURL ==
    [Scheme |-> <<>>, Opaque |-> <<>>, HasUser |-> FALSE, User |-> <<>>,
     Host |-> <<>>, Path |-> <<>>, RawPath |-> <<>>, OmitHost |-> FALSE,
     ForceQuery |-> FALSE, RawQuery |-> <<>>, Fragment |-> <<>>]

ParseError == [ok |-> FALSE, url |-> ZeroURL]

\* the URL of a parsed authority and an unescaped path
hierarchyOf(u0, omitHost, pathPart, auth, path) ==
    IF ~auth.ok \/ ~path.ok THEN ParseError
    ELSE [ok |-> TRUE,
          url |-> [u0 EXCEPT
                      !.HasUser = auth.hasUser, !.User = auth.user, !.Host = auth.host,
                      !.OmitHost = omitHost,
                      !.Path = path.val,
                      !.RawPath = IF pathPart = escape(path.val, "path")
                                  THEN <<>> ELSE pathPart]]

\* the authority and the path that follow "//"
afterSlashesOf(u0, afterSlashes, k) ==
    hierarchyOf(u0, FALSE,
                IF k = 0 THEN <<>> ELSE SubSeq(afterSlashes, k, Len(afterSlashes)),
                parseAuthority(IF k = 0 THEN afterSlashes ELSE SubSeq(afterSlashes, 1, k - 1)),
                unescape(IF k = 0 THEN <<>> ELSE SubSeq(afterSlashes, k, Len(afterSlashes)),
                         "path"))

\* what follows the scheme, the query cut off: opaque, or authority and path
parseRest(u0, rest) ==
    LET rooted == HasPrefix(rest, <<"/">>)
        hasAuthority == /\ u0.Scheme # <<>> \/ ~HasPrefix(rest, <<"/", "/", "/">>)
                        /\ HasPrefix(rest, <<"/", "/">>)
    IN  IF ~rooted /\ u0.Scheme # <<>>
        THEN [ok |-> TRUE, url |-> [u0 EXCEPT !.Opaque = rest]]
        ELSE IF ~rooted /\ Contains(Cut(rest, "/").before, ":") THEN ParseError
        ELSE IF hasAuthority
        THEN afterSlashesOf(u0, SubSeq(rest, 3, Len(rest)),
                            Index(SubSeq(rest, 3, Len(rest)), "/"))
        ELSE hierarchyOf(u0, u0.Scheme # <<>> /\ rooted, rest,
                         [ok |-> TRUE, hasUser |-> FALSE, user |-> <<>>, host |-> <<>>],
                         unescape(rest, "path"))

\* the scheme taken off, a lone trailing "?" or the query cut off
parseAfterScheme(sch) ==
    LET forced == sch.rest # <<>> /\ sch.rest[Len(sch.rest)] = "?" /\ Count(sch.rest, "?") = 1
    IN  IF sch.state = "error" THEN ParseError
        ELSE parseRest([ZeroURL EXCEPT
                           !.Scheme = sch.scheme, !.ForceQuery = forced,
                           !.RawQuery = IF forced THEN <<>> ELSE Cut(sch.rest, "?").after],
                       IF forced THEN SubSeq(sch.rest, 1, Len(sch.rest) - 1)
                       ELSE Cut(sch.rest, "?").before)

\* parse(rawURL, false): everything before the fragment
parseNoFragment(rawURL) == parseAfterScheme(getScheme(rawURL))

\* the fragment, unescaped, set on the parsed URL
withFragment(u, after, frag) ==
    IF ~u.ok THEN ParseError
    ELSE IF after = <<>> THEN u
    ELSE IF ~frag.ok THEN ParseError
    ELSE [ok |-> TRUE, url |-> [u.url EXCEPT !.Fragment = frag.val]]

\* url.Parse(rawURL)
Parse(rawURL) ==
    withFragment(parseNoFragment(Cut(rawURL, "#").before), Cut(rawURL, "#").after,
                 unescape(Cut(rawURL, "#").after, "fragment"))

\* u.EscapedPath()
EscapedPath(u) ==
    IF /\ u.RawPath # <<>>
       /\ validEncoded(u.RawPath)
       /\ unescape(u.RawPath, "path").ok
       /\ unescape(u.RawPath, "path").val = u.Path
    THEN u.RawPath
    ELSE escape(u.Path, "path")

\* the parts of u.String() put together
stringOf(u, scheme, path) ==
    LET slashes == IF u.Scheme # <<>> \/ u.Host # <<>> \/ u.HasUser
                   THEN IF u.OmitHost /\ u.Host = <<>> /\ ~u.HasUser THEN <<>>
                        ELSE (IF u.Host # <<>> \/ u.Path # <<>> \/ u.HasUser
                              THEN <<"/", "/">> ELSE <<>>)
                             \o (IF u.HasUser THEN u.User \o <<"@">> ELSE <<>>)
                             \o escape(u.Host, "host")
                   ELSE <<>>
        lead == IF path # <<>> /\ Head(path) # "/" /\ u.Host # <<>> THEN <<"/">> ELSE <<>>
        dotslash == IF scheme \o slashes \o lead = <<>> /\ Contains(Cut(path, "/").before, ":")
                    THEN <<".", "/">> ELSE <<>>
        body == IF u.Opaque # <<>> THEN u.Opaque
                ELSE slashes \o lead \o dotslash \o path
        query == IF u.ForceQuery \/ u.RawQuery # <<>> THEN <<"?">> \o u.RawQuery ELSE <<>>
        frag == IF u.Fragment # <<>> THEN <<"#">> \o escape(u.Fragment, "fragment") ELSE <<>>
    IN  scheme \o body \o query \o frag

\* u.String()
String(u) ==
    stringOf(u, IF u.Scheme # <<>> THEN u.Scheme \o <<":">> ELSE <<>>, EscapedPath(u))

\* strings.Split(s, sep) for one lexeme
RECURSIVE Split(_, _)
Split(s, sep) ==
    LET c == Cut(s, sep)
    IN  IF ~c.found THEN <<s>> ELSE <<c.before>> \o Split(c.after, sep)

\* url.Values is a map from key to the list of its values
RECURSIVE parseQueryPairs(_, _)
parseQueryPairs(m, pairs) ==
    IF pairs = <<>> THEN m
    ELSE LET c == Cut(Head(pairs), "=")
             key == unescape(c.before, "query")
             value == unescape(c.after, "query")
             more(m1) == parseQueryPairs(m1, Tail(pairs))
         IN  IF Head(pairs) = <<>> THEN more(m)
             ELSE IF ~key.ok \/ ~value.ok THEN more(m)
             ELSE IF key.val \in DOMAIN m
             THEN more([m EXCEPT ![key.val] = Append(@, value.val)])
             ELSE more(MapSet(m, key.val, <<value.val>>))

\* u.Query(): ParseQuery(u.RawQuery), its error dropped; a pair whose key or
\* value does not unescape is left out
Query(u) == parseQueryPairs(EmptyMap, Split(u.RawQuery, "&"))

\* a bug Values.Set does not have: the value is added to those present
ValuesAdd(m, key, value) ==
    IF key \in DOMAIN m THEN [m EXCEPT ![key] = Append(@, value)]
    ELSE MapSet(m, key, <<value>>)

\* q.Set(key, value)
ValuesSet(m, key, value) == MapSet(m, key, <<value>>)

\* The order of bytes on the lexemes that keys are made of.
ByteOrder == <<" ", "&", "/", "=", "A", "a", "b", "old", "rid", "x", "y">>

Rank(x) == Index(ByteOrder, x)

RECURSIVE KeyLeq(_, _)
KeyLeq(a, b) ==
    IF a = <<>> THEN TRUE
    ELSE IF b = <<>> THEN FALSE
    ELSE IF Rank(Head(a)) # Rank(Head(b)) THEN Rank(Head(a)) < Rank(Head(b))
    ELSE KeyLeq(Tail(a), Tail(b))

RECURSIVE SortedKeys(_)
SortedKeys(keys) ==
    IF keys = {} THEN <<>>
    ELSE LET least == CHOOSE k \in keys : \A o \in keys : KeyLeq(k, o)
         IN  <<least>> \o SortedKeys(keys \ {least})

\* v.Encode(): key=value pairs joined by "&", keys sorted, both escaped
Encode(m) ==
    LET keys == SortedKeys(DOMAIN m)
        pairsOf(k) == [i \in 1..Len(m[k]) |->
                          escape(k, "query") \o <<"=">> \o escape(m[k][i], "query")]
    IN  Join(Flatten([i \in 1..Len(keys) |-> pairsOf(keys[i])]), <<"&">>)

----------------------------------------------------------------------------
(* NewPhishingTemplateContext *)

\* The key of the recipient identifier in phishing and tracking URLs.
RecipientParameter == "rid"

ZeroContext ==
    [From |-> <<>>, URL |-> <<>>, Tracker |-> <<>>, TrackingURL |-> <<>>,
     RId |-> <<>>, BaseURL |-> <<>>,
     Email |-> <<>>, FirstName |-> <<>>, LastName |-> <<>>, Position |-> <<>>]

\* a bug lines 79-81 do not have: the name is used even when it is empty
NameOnly(f) == f.Name

\* lines 74-81: the name, or the address when the name is empty
DisplayName(f) == IF f.Name = <<>> THEN f.Address ELSE f.Name

\* a bug lines 69-71 do not have: the address error is dropped, as the
\* comment at lines 63-66 considers
FirstFailureIgnoringFrom(fromOK, renderErr, urlOK) ==
    IF renderErr # "nil" THEN "failed to execute base URL template"
    ELSE IF ~urlOK THEN "failed to parse templated base URL"
    ELSE "nil"

\* lines 69-71, 90-92, 98-100: the error of the first stage that fails
FirstFailure(fromOK, renderErr, urlOK) ==
    IF ~fromOK THEN "failed to parse from address"
    ELSE IF renderErr # "nil" THEN "failed to execute base URL template"
    ELSE IF ~urlOK THEN "failed to parse templated base URL"
    ELSE "nil"

\* line 125
TrackerMarkup(trackingURL) ==
    <<"<img alt='' style='display: none' src='">> \o trackingURL \o <<"'/>">>

\* lines 117-130
populated(fn, baseURL, phishURL, trackingURL, r, rid) ==
    [ctx |-> [From        |-> fn,
              URL         |-> phishURL,
              Tracker     |-> TrackerMarkup(trackingURL),
              TrackingURL |-> trackingURL,
              RId         |-> rid,
              BaseURL     |-> baseURL,
              Email       |-> r.Email,
              FirstName   |-> r.FirstName,
              LastName    |-> r.LastName,
              Position    |-> r.Position],
     err |-> "nil"]

\* lines 101-114: the three URLs of the parsed templateURL, q being the
\* encoded query with the recipient identifier set
urlsOf(fn, u, q, r, rid) ==
    populated(fn,
              String([u EXCEPT !.Path = <<>>, !.RawQuery = <<>>]),
              String([u EXCEPT !.RawQuery = q]),
              String([u EXCEPT !.Path = PathJoin(u.Path, <<"/", "track">>), !.RawQuery = q]),
              r, rid)

\* lines 69-114, given the results of the three stages
contextOf(f, rendered, parsed, r, rid) ==
    IF FirstFailure(f.ok, rendered.err, parsed.ok) # "nil"
    THEN [ctx |-> ZeroContext, err |-> FirstFailure(f.ok, rendered.err, parsed.ok)]
    ELSE urlsOf(DisplayName(f), parsed.url,
                Encode(ValuesSet(Query(parsed.url), <<RecipientParameter>>, rid)), r, rid)

\* line 96: the rendered base URL is parsed
parsedContext(f, rendered, r, rid) ==
    contextOf(f, rendered, Parse(rendered.out), r, rid)

\* NewPhishingTemplateContext(ctx, r, rid), fromAddr being ctx.getFromAddress(),
\* baseURLTemplate being ctx.getBaseURL() and clock the time of the call
NewPhishingTemplateContext(fromAddr, baseURLTemplate, r, rid, clock) ==
    parsedContext(ParseAddress(fromAddr), ExecuteTemplate(baseURLTemplate, r, clock), r, rid)

----------------------------------------------------------------------------
(* Callers of NewPhishingTemplateContext (SpecContext) *)

MaxPathLen == 5
MaxMinutes == 1

\* time.Now() when the program starts: one minute before midnight
StartMinute == MinutesPerDay - 1

\* BaseRecipient values: the one ValidateTemplate uses, and one with empty fields
ValidationRecipient ==
    [Email |-> <<"foo", "@", "bar.com">>, FirstName |-> <<"Foo">>,
     LastName |-> <<"Bar">>, Position |-> <<"Test">>]

OtherRecipient ==
    [Email |-> <<"Bob", "@", "bar.com">>, FirstName |-> <<"Bob">>,
     LastName |-> <<>>, Position |-> <<>>]

Recipients == {ValidationRecipient, OtherRecipient}

ValidationRId == <<"validate123">>

\* recipient identifiers; one holds characters that a query must escape
RIds == {ValidationRId, <<"r", "&", "x", "=", "1">>, <<>>}

\* From addresses that are valid by construction, each with the display
\* name and addr-spec it was built from
FromTable ==
    << [text |-> <<"foo", "@", "bar.com">>,
        name |-> <<>>, addr |-> <<"foo", "@", "bar.com">>],
       [text |-> <<"<", "foo", "@", "bar.com", ">">>,
        name |-> <<>>, addr |-> <<"foo", "@", "bar.com">>],
       [text |-> <<" ", "foo", "@", " ", "bar.com", " ">>,
        name |-> <<>>, addr |-> <<"foo", "@", "bar.com">>],
       [text |-> <<"Bob", " ", "<", "foo", "@", "bar.com", ">">>,
        name |-> <<"Bob">>, addr |-> <<"foo", "@", "bar.com">>],
       [text |-> <<"Bob", " ", "Smith", "<", "foo", "@", "bar.com", ">", " ">>,
        name |-> <<"Bob", " ", "Smith">>, addr |-> <<"foo", "@", "bar.com">>],
       [text |-> <<"\"Bob Smith\"", " ", "<", "foo", "@", "bar.com", ">">>,
        name |-> <<"Bob", " ", "Smith">>, addr |-> <<"foo", "@", "bar.com">>],
       [text |-> <<EncodedWord, " ", "<", "Bob", "@", "bar.com", ">">>,
        name |-> <<"Bob">>, addr |-> <<"Bob", "@", "bar.com">>],
       [text |-> <<"\"Bob Smith\"", "@", "bar.com">>,
        name |-> <<>>, addr |-> <<"Bob", " ", "Smith", "@", "bar.com">>] >>

ValidFrom == {FromTable[i].text : i \in DOMAIN FromTable}

\* From addresses that are malformed by construction
InvalidFrom ==
    { <<>>,
      <<"Bob">>,
      <<"foo", "@">>,
      <<"@", "bar.com">>,
      <<"Bob", " ", "<", "foo", "@", "bar.com">>,
      <<"foo", "@", "bar.com", " ", "Bob">>,
      <<"<", ">">> }

PlainFrom == FromTable[1].text

HTTPExample == <<"http", ":", "/", "/", "example.com">>

Prefixes == {HTTPExample, <<>>, <<"mailto", ":">>}

PathAlphabet == {"/", ".", "a"}

RECURSIVE PathsOfLen(_)
PathsOfLen(n) ==
    IF n = 0 THEN {<<>>}
    ELSE {Append(p, c) : p \in PathsOfLen(n - 1), c \in PathAlphabet}

Paths == UNION {PathsOfLen(n) : n \in 0..MaxPathLen}

FewPaths == {<<>>, <<"/">>, <<"/", "a", "/", EscapedA>>}

PlainQuery == <<"?", "x", "=", "1">>

Queries ==
    { <<>>,
      PlainQuery,
      <<"?">>,
      <<"?", "rid", "=", "old">>,
      <<"?", "x", "=", "1", "&", "rid", "=", "old", "&", "rid", "=", "b", "&", "x", "=", "2">>,
      <<"?", "x", "=", InvalidEscape, "&", "y", "=", "1">>,
      <<"?", "b", "=", "a", "+", "b", "&", "a", "=", EscapedA, "&", "&", "c">>,
      <<"?", "x", "=", "1", "#", "a">> }

\* base URL templates that render and parse, by construction
TemplatedBaseURLs ==
    { <<"http", ":", "/", "/", "{{", ".FirstName", "}}", ".", "example.com", "/",
        "{{", ".LastName", "}}">>,
      HTTPExample \o <<"/", "{{", "hora", "}}">>,
      HTTPExample \o <<"/", "?", "e", "=", "{{", ".Email", "}}">>,
      HTTPExample \o <<"/", "{{", "if", "eq", ".Position", "\"\"", "}}", "a", "{{", "end", "}}">> }

\* base URL templates that do not render
BrokenTemplates ==
    { HTTPExample \o <<"/", "{{", ".Unknown", "}}">>,
      HTTPExample \o <<"/", "{{">>,
      HTTPExample \o <<"/", "{{", "now", "}}">>,
      HTTPExample \o <<"/", "{{", ".RId", "}}">> }

\* base URL templates that render to a string url.Parse rejects
UnparseableURLs ==
    { <<":", "a">>,
      <<"http", ":", "/", "/", "exa", " ", "mple">>,
      HTTPExample \o <<"/", InvalidEscape>>,
      HTTPExample \o <<":", "a">>,
      <<"{{", "hora", "}}">> }

Input(from, baseURL, r, rid) ==
    [from |-> from, baseURL |-> baseURL, r |-> r, rid |-> rid]

\* what callers pass: every path with two queries, every query with a few
\* paths and every identifier, every From address, every template
PhishInputs ==
    {Input(PlainFrom, p \o path \o q, ValidationRecipient, ValidationRId) :
        p \in Prefixes, path \in Paths, q \in {<<>>, PlainQuery}}
    \cup {Input(PlainFrom, p[1] \o p[2] \o q, ValidationRecipient, rid) :
        p \in Prefixes \X FewPaths, q \in Queries, rid \in RIds}
    \cup {Input(from, u, ValidationRecipient, ValidationRId) :
        from \in ValidFrom \cup InvalidFrom,
        u \in {HTTPExample, HTTPExample \o <<"/", "{{", ".Unknown", "}}">>, <<":", "a">>}}
    \cup {Input(from, u, r, ValidationRId) :
        from \in {PlainFrom, <<"Bob">>},
        u \in TemplatedBaseURLs \cup BrokenTemplates \cup UnparseableURLs,
        r \in Recipients}

IdlePhish ==
    [pc |-> "idle", in |-> Input(<<>>, <<>>, ValidationRecipient, <<>>), clock |-> 0,
     out |-> [ctx |-> ZeroContext, err |-> "nil"]]

\* a campaign or an email request builds the context of one recipient
BuildContext(in) ==
    /\ phish.pc = "idle"
    /\ phish' = [pc |-> "built", in |-> in, clock |-> minute,
                 out |-> NewPhishingTemplateContext(in.from, in.baseURL, in.r, in.rid, minute)]
    /\ UNCHANGED <<minute, hvars, vvars, tvars>>

\* the caller renders with the context and drops it
Discard ==
    /\ phish.pc = "built"
    /\ phish' = IdlePhish
    /\ UNCHANGED <<minute, hvars, vvars, tvars>>

MinutesElapsed == (minute + MinutesPerDay - StartMinute) % MinutesPerDay

TickMinute ==
    /\ MinutesElapsed < MaxMinutes
    /\ minute' = (minute + 1) % MinutesPerDay
    /\ UNCHANGED <<phish, hvars, vvars, tvars>>

CNext ==
    \/ \E in \in PhishInputs : BuildContext(in)
    \/ Discard
    \/ TickMinute

----------------------------------------------------------------------------
(* ValidateTemplate (SpecValidate) *)

ValidationContext ==
    [FromAddress |-> <<"foo", "@", "bar.com">>, BaseURL |-> HTTPExample]

\* lines 203-215: the text is executed against the synthetic context
validationOf(ptx, text, clock) ==
    IF ptx.err # "nil" THEN "error creating validation context"
    ELSE IF ExecuteTemplate(text, ptx.ctx, clock).err # "nil" THEN "template validation failed"
    ELSE "nil"

ValidateTemplate(text, clock) ==
    validationOf(NewPhishingTemplateContext(ValidationContext.FromAddress,
                     ValidationContext.BaseURL, ValidationRecipient, ValidationRId, clock),
                 text, clock)

GreetingText == <<"Hello ", "{{", ".FirstName", "}}", ", click ", "{{", ".URL", "}}">>

MidnightText ==
    <<"{{", "if", "eq", "hora", "\"00:00\"", "}}", "{{", ".Unknown", "}}", "{{", "end", "}}">>

\* template bodies users submit
TemplateTexts ==
    { <<>>,
      GreetingText,
      <<"{{", ".From", "}}", "{{", ".Tracker", "}}", "{{", ".TrackingURL", "}}",
        "{{", ".RId", "}}", "{{", ".BaseURL", "}}", "{{", ".Email", "}}",
        "{{", ".LastName", "}}", "{{", ".Position", "}}">>,
      <<"It is ", "{{", "hora", "}}">>,
      <<"{{", "if", "eq", "hora", "\"00:00\"", "}}", "midnight", "{{", "end", "}}">>,
      <<"{{", ".Unknown", "}}">>,
      <<"{{", "now", "}}">>,
      <<"Hello ", "{{">>,
      MidnightText }

\* a page or template body is validated
Validates(text) ==
    /\ validated' = [validated EXCEPT ![text] = @ \cup {ValidateTemplate(text, minute)}]
    /\ UNCHANGED <<minute, phish, hvars, tvars>>

VNext ==
    \/ \E text \in TemplateTexts : Validates(text)
    \/ TickMinute

----------------------------------------------------------------------------
(* Template.Validate, PostTemplate, PutTemplate (SpecTemplates) *)

MaxTemplates == 1
MaxAttachments == 1

ErrInvalidHeaderProfile == "Invalid header profile specified"
ErrTemplateNameNotSpecified == "Template name not specified"
ErrTemplateMissingParameter == "Need to specify at least plaintext or HTML content"
ErrAddress == "mail: invalid address"
ErrAttachment == "attachment is not valid"
ErrDatabase == "database error"

ValidationErrors ==
    {ErrInvalidHeaderProfile, ErrTemplateNameNotSpecified, ErrTemplateMissingParameter,
     ErrAddress, ErrAttachment, "error creating validation context",
     "template validation failed"}

\* the bodies templates are submitted with
BodyTexts == {<<>>, GreetingText, <<"{{", ".Unknown", "}}">>}

\* ValidateTemplate of each body at each minute of the run
ValidateAt ==
    [text \in BodyTexts |->
        [m \in {(StartMinute + k) % MinutesPerDay : k \in 0..MaxMinutes} |->
            ValidateTemplate(text, m)]]

\* a.Validate() of each attachment in turn: the first error
RECURSIVE ValidateAttachments(_)
ValidateAttachments(as) ==
    IF as = <<>> THEN "nil"
    ELSE IF ~Head(as).valid THEN ErrAttachment
    ELSE ValidateAttachments(Tail(as))

\* the first of three results that is an error
firstError(html, text, attached) ==
    IF html # "nil" THEN html ELSE IF text # "nil" THEN text ELSE attached

\* lines 151-161: the HTML, then the text, then the attachments
validateContent(at, t, clock) ==
    firstError(at[t.HTML][clock], at[t.Text][clock], ValidateAttachments(t.Attachments))

\* a bug lines 133-138 do not have: the header profile is not looked up
ValidateWithoutProfile(reg, t, clock) ==
    IF t.Name = <<>> THEN ErrTemplateNameNotSpecified
    ELSE IF t.Text = <<>> /\ t.HTML = <<>> THEN ErrTemplateMissingParameter
    ELSE IF t.EnvelopeSender # <<>> /\ ~ParseAddress(t.EnvelopeSender).ok THEN ErrAddress
    ELSE validateContent(ValidateAt, t, clock)

\* (t *Template) Validate(), reg being PredefinedHeaderProfiles
Validate(reg, t, clock) ==
    IF t.HeaderProfile # "" /\ t.HeaderProfile \notin DOMAIN reg THEN ErrInvalidHeaderProfile
    ELSE IF t.Name = <<>> THEN ErrTemplateNameNotSpecified
    ELSE IF t.Text = <<>> /\ t.HTML = <<>> THEN ErrTemplateMissingParameter
    ELSE IF t.EnvelopeSender # <<>> /\ ~ParseAddress(t.EnvelopeSender).ok THEN ErrAddress
    ELSE validateContent(ValidateAt, t, clock)

\* lines 245-247 and 274-276
DefaultProfile(t) ==
    IF t.HeaderProfile = "" THEN [t EXCEPT !.HeaderProfile = "default"] ELSE t

\* the columns of a templates row
Row(t) ==
    [Name |-> t.Name, EnvelopeSender |-> t.EnvelopeSender, Text |-> t.Text,
     HTML |-> t.HTML, HeaderProfile |-> t.HeaderProfile]

\* the primary key an INSERT assigns
NextId(used) == CHOOSE i \in 1..(Cardinality(used) + 1) : i \notin used

\* db.Save(t): INSERT when the primary key is blank, else UPDATE or INSERT
\* of that key; the key is written back to t
SaveTemplate(tbl, t) ==
    LET id == IF t.Id = 0 THEN NextId(DOMAIN tbl) ELSE t.Id
    IN  [tbl |-> [i \in DOMAIN tbl \cup {id} |-> IF i = id THEN Row(t) ELSE tbl[i]],
         t |-> [t EXCEPT !.Id = id]]

\* lines 259-266 and 289-296 with no database error: every attachment gets
\* the template's id and is inserted
RECURSIVE SaveAttachments(_, _, _)
SaveAttachments(rows, as, templateId) ==
    IF as = <<>> THEN rows
    ELSE SaveAttachments(
            rows \cup {[Id |-> NextId({r.Id : r \in rows}), TemplateId |-> templateId,
                        Name |-> Head(as).Name]},
            Tail(as), templateId)

\* db.Where("template_id=?", id).Delete(&Attachment{})
DeleteAttachments(rows, templateId) == {r \in rows : r.TemplateId # templateId}

Attachment(name, valid) == [Name |-> name, valid |-> valid]

AttachmentLists ==
    {<<>>, <<Attachment("a.pdf", TRUE)>>, <<Attachment("a.exe", FALSE)>>}

TemplateOf(id, name, sender, text, html, profile, as) ==
    [Id |-> id, Name |-> name, EnvelopeSender |-> sender, Text |-> text, HTML |-> html,
     HeaderProfile |-> profile, Attachments |-> as]

\* what the API passes: every header profile name with a sound body, and
\* every kind of body with an empty header profile
TemplateInputs ==
    {TemplateOf(id, <<"T">>, <<>>, GreetingText, <<>>, profile, as) :
        id \in 0..MaxTemplates, profile \in ProfileNames, as \in AttachmentLists}
    \cup {TemplateOf(0, b[1], b[2], b[3], b[4], "", <<>>) :
        b \in { <<<<>>, <<>>, GreetingText, <<>>>>,
                <<<<"T">>, <<>>, <<>>, <<>>>>,
                <<<<"T">>, <<"Bob">>, GreetingText, <<>>>>,
                <<<<"T">>, PlainFrom, <<>>, GreetingText>>,
                <<<<"T">>, <<>>, GreetingText, <<"{{", ".Unknown", "}}">>>>,
                <<<<"T">>, <<>>, <<"{{", ".Unknown", "}}">>, GreetingText>> }}

\* the database statement of a call that fails, if any
Failures == {"none", "save template", "save attachment", "delete attachments"}

IdleRequest ==
    [pc |-> "idle", op |-> "", arg |-> TemplateOf(0, <<>>, <<>>, <<>>, <<>>, "", <<>>),
     t |-> TemplateOf(0, <<>>, <<>>, <<>>, <<>>, "", <<>>), err |-> "nil",
     statements |-> <<>>]

Answer(op, arg, t, err, statements) ==
    [pc |-> "returned", op |-> op, arg |-> arg, t |-> t, err |-> err,
     statements |-> statements]

\* a table can take the rows a call inserts
Room(t) ==
    /\ (t.Id \notin DOMAIN templates => Cardinality(DOMAIN templates) < MaxTemplates)
    /\ Cardinality(attachments) + Len(t.Attachments) <= MaxAttachments

PostTemplate(arg, failure) ==
    /\ request.pc = "idle"
    /\ Room(arg)
    /\ failure \in {"none", "save template", "save attachment"}
    /\ LET t == DefaultProfile(arg)
           err == Validate(registry, t, minute)
           saved == SaveTemplate(templates, t)
       IN  IF err # "nil"
           THEN /\ request' = Answer("PostTemplate", arg, t, err, <<>>)
                /\ UNCHANGED <<templates, attachments>>
           ELSE IF failure = "save template"
           THEN /\ request' = Answer("PostTemplate", arg, t, ErrDatabase, <<>>)
                /\ UNCHANGED <<templates, attachments>>
           ELSE IF failure = "save attachment" /\ t.Attachments # <<>>
           THEN /\ templates' = saved.tbl
                /\ request' = Answer("PostTemplate", arg, saved.t, ErrDatabase,
                                     <<"save template">>)
                /\ UNCHANGED attachments
           ELSE /\ templates' = saved.tbl
                /\ attachments' = SaveAttachments(attachments, t.Attachments, saved.t.Id)
                /\ request' = Answer("PostTemplate", arg, saved.t, "nil",
                                     <<"save template">>
                                     \o [i \in 1..Len(t.Attachments) |-> "save attachment"])
    /\ UNCHANGED <<hvars, cvars, vvars>>

PutTemplate(arg, failure) ==
    /\ request.pc = "idle"
    /\ Room(arg)
    /\ LET t == DefaultProfile(arg)
           err == Validate(registry, t, minute)
           kept == DeleteAttachments(attachments, t.Id)
           saved == SaveTemplate(templates, t)
       IN  IF err # "nil"
           THEN /\ request' = Answer("PutTemplate", arg, t, err, <<>>)
                /\ UNCHANGED <<templates, attachments>>
           ELSE IF failure = "delete attachments"
           THEN /\ request' = Answer("PutTemplate", arg, t, ErrDatabase, <<>>)
                /\ UNCHANGED <<templates, attachments>>
           ELSE IF failure = "save attachment" /\ t.Attachments # <<>>
           THEN /\ attachments' = kept
                /\ request' = Answer("PutTemplate", arg, t, ErrDatabase,
                                     <<"delete attachments">>)
                /\ UNCHANGED templates
           ELSE IF failure = "save template"
           THEN /\ attachments' = SaveAttachments(kept, t.Attachments, t.Id)
                /\ request' = Answer("PutTemplate", arg, t, ErrDatabase,
                                     <<"delete attachments">>
                                     \o [i \in 1..Len(t.Attachments) |-> "save attachment"])
                /\ UNCHANGED templates
           ELSE /\ attachments' = SaveAttachments(kept, t.Attachments, t.Id)
                /\ templates' = saved.tbl
                /\ request' = Answer("PutTemplate", arg, saved.t, "nil",
                                     <<"delete attachments">>
                                     \o [i \in 1..Len(t.Attachments) |-> "save attachment"]
                                     \o <<"save template">>)
    /\ UNCHANGED <<hvars, cvars, vvars>>

\* the API handler answers the request
Respond ==
    /\ request.pc = "returned"
    /\ request' = IdleRequest
    /\ UNCHANGED <<templates, attachments, hvars, cvars, vvars>>

\* DeleteTemplate(id, uid) with no database error
DeleteTemplate(id) ==
    /\ request.pc = "idle"
    /\ id \in DOMAIN templates
    /\ attachments' = DeleteAttachments(attachments, id)
    /\ templates' = [i \in DOMAIN templates \ {id} |-> templates[i]]
    /\ UNCHANGED <<request, hvars, cvars, vvars>>

TNext ==
    \/ \E arg \in TemplateInputs, failure \in Failures : PostTemplate(arg, failure)
    \/ \E arg \in TemplateInputs, failure \in Failures : PutTemplate(arg, failure)
    \/ Respond
    \/ \E id \in 1..MaxTemplates : DeleteTemplate(id)
    \/ TickMinute

----------------------------------------------------------------------------
(* Specifications *)

Init ==
    /\ HInit
    /\ minute = StartMinute
    /\ phish = IdlePhish
    /\ validated = [text \in TemplateTexts |-> {}]
    /\ templates = <<>>
    /\ attachments = {}
    /\ request = IdleRequest

SpecHeaders == Init /\ [][HNext]_vars

SpecContext == Init /\ [][CNext]_vars

SpecValidate == Init /\ [][VNext]_vars

SpecTemplates == Init /\ [][TNext]_vars

----------------------------------------------------------------------------
(* Claims about GetHeadersForProfile (SpecHeaders) *)

\* A call that has reached its return statement: its results are final and
\* no caller has touched them yet.
AtReturn(p) == gor[p].pc = "l127"

WithoutContentType(m) == MapDelete(m, "Content-Type")

\* C1: a profile name that is no key of the registry (the empty string
\* included) gets no error, the headers the name "default" gets on every key
\* but Content-Type, and a boundary with the "----=_NextPart_" prefix.
C1_UnknownNameResolvesAsDefault ==
    \A p \in Procs, q \in Procs :
        (/\ AtReturn(p) /\ AtReturn(q)
         /\ gor[p].arg \notin DOMAIN PredefinedHeaderProfiles
         /\ gor[q].arg = "default")
        => /\ gor[p].err = "nil"
           /\ WithoutContentType(heap[gor[p].headers]) = WithoutContentType(heap[gor[q].headers])
           /\ "Content-Type" \in DOMAIN heap[gor[p].headers]
           /\ Len(gor[p].boundary) = Len(gor[q].boundary)
           /\ Head(gor[p].boundary) = "----=_NextPart_"
           /\ Head(gor[q].boundary) = "----=_NextPart_"

\* A call for the empty name and a call for "default" stand at their return
\* statements with different random suffixes.
C1_Witness ==
    \E p \in Procs, q \in Procs :
        /\ AtReturn(p) /\ AtReturn(q)
        /\ gor[p].arg = "" /\ gor[q].arg = "default"
        /\ gor[p].boundary # gor[q].boundary

\* The profile a name resolves to, as the contract states it.
ResolvedKey(name) ==
    IF name \in DOMAIN PredefinedHeaderProfiles THEN name ELSE "default"

StaticHeaders(key) == PredefinedHeaders[PredefinedHeaderProfiles[key].Headers]

\* C2: the returned map is the resolved profile's static headers plus
\* Content-Type = multipart/alternative; boundary="<token>", <token> being the
\* boundary returned with it: "Apple-Mail=_" for apple_mail and
\* "----=_NextPart_" otherwise, then exactly 30 characters of a-z, A-Z, 0-9.
C2_HeadersAndBoundaryShape ==
    \A p \in Procs :
        AtReturn(p) =>
            LET key == ResolvedKey(gor[p].arg)
                m   == heap[gor[p].headers]
                b   == gor[p].boundary
            IN  /\ DOMAIN m = DOMAIN StaticHeaders(key) \cup {"Content-Type"}
                /\ \A k \in DOMAIN StaticHeaders(key) : m[k] = StaticHeaders(key)[k]
                /\ m["Content-Type"] =
                        <<"multipart/alternative; boundary=\"">> \o b \o <<"\"">>
                /\ Head(b) = IF key = "apple_mail" THEN "Apple-Mail=_" ELSE "----=_NextPart_"
                /\ Len(Tail(b)) = 30
                /\ \A i \in 1..Len(Tail(b)) : Tail(b)[i] \in Range(charset)

\* An apple_mail call and an outlook call stand at their return statements.
C2_Witness ==
    \E p \in Procs, q \in Procs :
        /\ AtReturn(p) /\ AtReturn(q)
        /\ gor[p].arg = "apple_mail" /\ Head(gor[p].boundary) = "Apple-Mail=_"
        /\ gor[q].arg = "outlook" /\ Head(gor[q].boundary) = "----=_NextPart_"

TokensAtReturn == {p \in Procs : AtReturn(p)}

\* C7: two calls of GetHeadersForProfile never return the same boundary
\* token, two calls that read the same clock value included.
C7_BoundariesNeverRepeat ==
    /\ \A i \in 1..Len(returned), j \in 1..Len(returned) :
            i # j => returned[i].boundary # returned[j].boundary
    /\ \A p \in TokensAtReturn, i \in 1..Len(returned) :
            gor[p].boundary # returned[i].boundary
    /\ \A p \in TokensAtReturn, q \in TokensAtReturn :
            p # q => gor[p].boundary # gor[q].boundary

RegistryRefs == {PredefinedHeaderProfiles[k].Headers : k \in DOMAIN PredefinedHeaderProfiles}

LiveResultRefs ==
    {returned[i].headers : i \in 1..Len(returned)} \cup
    {gor[p].headers : p \in {q \in Procs : gor[q].pc # "idle"}}

\* C9: calls leave the registry as it was built: every profile keeps its
\* headers, none gains Content-Type, "default" stays a key; no result shares
\* its map with the registry or with another result, so what a caller does to
\* a returned map shows neither in the registry nor in a later call's result.
C9_RegistryUntouched ==
    /\ registry = PredefinedHeaderProfiles
    /\ "default" \in DOMAIN registry
    /\ \A k \in DOMAIN registry :
            /\ heap[registry[k].Headers] = StaticHeaders(k)
            /\ "Content-Type" \notin DOMAIN heap[registry[k].Headers]
    /\ LiveResultRefs \cap RegistryRefs = {}
    /\ \A i \in 1..Len(returned), p \in Procs :
            gor[p].pc # "idle" => returned[i].headers # gor[p].headers
    /\ \A p \in Procs :
            AtReturn(p) =>
                /\ "X-Caller" \notin DOMAIN heap[gor[p].headers]
                /\ heap[gor[p].headers]["MIME-Version"] # <<"changed by caller">>

\* A caller has rewritten the map of an earlier result and a later call stands
\* at its return statement.
C9_Witness ==
    /\ \E i \in 1..Len(returned) : "X-Caller" \in DOMAIN heap[returned[i].headers]
    /\ \E p \in Procs : AtReturn(p)

----------------------------------------------------------------------------
(* Claims about NewPhishingTemplateContext (SpecContext) *)

Succeeded == phish.pc = "built" /\ phish.out.err = "nil"

\* the base URL template of the call, rendered for its recipient and parsed
RenderedURL ==
    Parse(ExecuteTemplate(phish.in.baseURL, phish.in.r, phish.clock).out).url

TrimSlash(p) ==
    IF p # <<>> /\ p[Len(p)] = "/" THEN SubSeq(p, 1, Len(p) - 1) ELSE p

DotDot == <<".", ".">>

\* the segments of a path between its leading and its trailing slash
InnerSegments(p) ==
    LET segs == Split(p, "/")
    IN  SubSeq(segs, IF p # <<>> /\ Head(p) = "/" THEN 2 ELSE 1,
               IF segs[Len(segs)] = <<>> THEN Len(segs) - 1 ELSE Len(segs))

\* a path with no empty, "." or ".." segment
IsCleanPath(p) ==
    \A i \in 1..Len(InnerSegments(p)) : InnerSegments(p)[i] \notin {<<>>, <<".">>, DotDot}

\* the segments that are left when empty and "." segments are dropped and
\* each ".." takes back the segment before it (at the root, nothing)
RECURSIVE Resolve(_, _)
Resolve(segs, kept) ==
    IF segs = <<>> THEN kept
    ELSE IF Head(segs) \in {<<>>, <<".">>} THEN Resolve(Tail(segs), kept)
    ELSE IF Head(segs) = DotDot
    THEN Resolve(Tail(segs), SubSeq(kept, 1, Len(kept) - 1))
    ELSE Resolve(Tail(segs), Append(kept, Head(segs)))

\* a path that is empty or begins with "/"
IsAbsolute(p) == p = <<>> \/ Head(p) = "/"

\* the cleaned absolute path p with the segment track after it
CleanedWithTrack(p) ==
    <<"/">> \o Join(Append(Resolve(Split(p, "/"), <<>>), <<"track">>), <<"/">>)

RidKey == <<RecipientParameter>>

TrackingFollowsClean(base, phishURL, trackingURL, t, u) ==
    /\ t.ok /\ u.ok
    /\ Query(t.url) = Query(u.url)
    /\ RidKey \in DOMAIN Query(t.url)
    /\ base.Opaque # <<>> => trackingURL = phishURL
    /\ (base.Opaque = <<>> /\ IsAbsolute(base.Path)) =>
          /\ t.url.Path = CleanedWithTrack(base.Path)
          /\ Count(t.url.Path, "track") = 1
          /\ IsCleanPath(base.Path) => t.url.Path = TrimSlash(base.Path) \o <<"/", "track">>

\* C3 (amended): when the rendered base URL is not opaque and its path is
\* empty or begins with "/", the path of TrackingURL is that path cleaned as
\* path.Join cleans it (empty and "." segments dropped, ".." resolved, no
\* trailing slash) followed by "/track" once, which for a path that is
\* already clean is the path itself followed by "/track"; the query
\* parameters of TrackingURL are those of URL and hold the recipient
\* identifier; for an opaque rendered URL TrackingURL is URL itself.
C3_TrackingPathIsCleanedPathPlusTrack ==
    Succeeded =>
        TrackingFollowsClean(RenderedURL, phish.out.ctx.URL, phish.out.ctx.TrackingURL,
                             Parse(phish.out.ctx.TrackingURL), Parse(phish.out.ctx.URL))

C3_Witness ==
    /\ Succeeded
    /\ RenderedURL.Host = <<"example.com">>
    /\ RenderedURL.Path = <<"/", "a", "/", ".", "/">>
    /\ Parse(phish.out.ctx.TrackingURL).url.Path = <<"/", "a", "/", "track">>
    /\ Query(Parse(phish.out.ctx.TrackingURL).url) = (<<"rid">> :> <<ValidationRId>>)

TrackingAppendsTrack(base, t, u) ==
    /\ t.ok /\ u.ok
    /\ t.url.Path = TrimSlash(base.Path) \o <<"/", "track">>
    /\ Query(t.url) = Query(u.url)
    /\ RidKey \in DOMAIN Query(t.url)

\* C3 as stated: the path of TrackingURL is the path of the rendered base URL
\* with "/track" appended once and no other change, and its query parameters
\* are those of URL, the recipient identifier among them.
C3_TrackingPathIsBasePathPlusTrack ==
    Succeeded =>
        TrackingAppendsTrack(RenderedURL, Parse(phish.out.ctx.TrackingURL),
                             Parse(phish.out.ctx.URL))

SameButQuery(u, v) ==
    /\ u.Scheme = v.Scheme
    /\ u.Opaque = v.Opaque
    /\ u.HasUser = v.HasUser /\ u.User = v.User
    /\ u.Host = v.Host
    /\ u.Path = v.Path
    /\ u.Fragment = v.Fragment

RidSetOthersParsed(base, u, rid) ==
    /\ u.ok
    /\ SameButQuery(u.url, base)
    /\ Query(u.url) = MapSet(Query(base), RidKey, <<rid>>)

\* C4 (amended): URL is the rendered URL whose recipient parameter has the
\* single value rid, whatever values the rendered URL carried for that key;
\* every other parameter that the query parser accepts keeps its values in
\* their order, and a pair whose key or value is not a valid percent-encoding
\* is left out of URL.
C4_RidSetOtherParsedParametersKept ==
    Succeeded => RidSetOthersParsed(RenderedURL, Parse(phish.out.ctx.URL), phish.in.rid)

C4_Witness ==
    /\ Succeeded
    /\ phish.in.rid = <<"r", "&", "x", "=", "1">>
    /\ Query(RenderedURL) = (<<"rid">> :> <<<<"old">>, <<"b">>>>) @@ (<<"x">> :> <<<<"1">>, <<"2">>>>)
    /\ Query(Parse(phish.out.ctx.URL).url) =
          (<<"rid">> :> <<phish.in.rid>>) @@ (<<"x">> :> <<<<"1">>, <<"2">>>>)

\* the keys of the key=value pairs of a raw query, as written
RawKeys(rawQuery) ==
    {Cut(Split(rawQuery, "&")[i], "=").before :
        i \in {j \in 1..Len(Split(rawQuery, "&")) : Split(rawQuery, "&")[j] # <<>>}}

EveryRawKeyKept(base, u) ==
    \A k \in RawKeys(base.RawQuery) : k \in RawKeys(u.url.RawQuery) \cup {RidKey}

\* C4 as stated: the recipient parameter of URL has the single value rid and
\* every other query parameter of the rendered URL is still in URL.
C4_RidSetEveryOtherParameterKept ==
    Succeeded =>
        /\ RidSetOthersParsed(RenderedURL, Parse(phish.out.ctx.URL), phish.in.rid)
        /\ EveryRawKeyKept(RenderedURL, Parse(phish.out.ctx.URL))

FromEntry(text) == FromTable[CHOOSE i \in DOMAIN FromTable : FromTable[i].text = text]

\* C5: for a valid From address the From field is the display name when the
\* address has one and the bare address when it has none, and is not empty.
C5_FromIsNameOrBareAddress ==
    (Succeeded /\ phish.in.from \in ValidFrom) =>
        /\ phish.out.ctx.From # <<>>
        /\ FromEntry(phish.in.from).name # <<>> =>
               phish.out.ctx.From = FromEntry(phish.in.from).name
        /\ FromEntry(phish.in.from).name = <<>> =>
               phish.out.ctx.From = FromEntry(phish.in.from).addr

C5_Witness ==
    /\ Succeeded
    /\ phish.in.from = <<"<", "foo", "@", "bar.com", ">">>
    /\ phish.out.ctx.From = <<"foo", "@", "bar.com">>

\* the error the definition of the inputs calls for
ExpectedFailure(in) ==
    IF in.from \in InvalidFrom THEN "failed to parse from address"
    ELSE IF in.baseURL \in BrokenTemplates THEN "failed to execute base URL template"
    ELSE IF in.baseURL \in UnparseableURLs THEN "failed to parse templated base URL"
    ELSE "nil"

FullyPopulated(in, ctx) ==
    /\ ctx.From # <<>>
    /\ ctx.URL # <<>>
    /\ ctx.TrackingURL # <<>>
    /\ ctx.Tracker = TrackerMarkup(ctx.TrackingURL)
    /\ ctx.RId = in.rid
    /\ ctx.Email = in.r.Email /\ ctx.FirstName = in.r.FirstName
    /\ ctx.LastName = in.r.LastName /\ ctx.Position = in.r.Position

\* C8: the call returns a fully populated context and no error, or the zero
\* context and the error of the first stage that fails, the stages being the
\* From address, the rendering of the base URL and the parsing of the
\* rendered URL, in that order.
C8_AllOrNothingInStageOrder ==
    phish.pc = "built" =>
        /\ phish.out.err = ExpectedFailure(phish.in)
        /\ phish.out.err # "nil" => phish.out.ctx = ZeroContext
        /\ phish.out.err = "nil" => FullyPopulated(phish.in, phish.out.ctx)

C8_Witness ==
    /\ phish.pc = "built"
    /\ phish.in.from \in InvalidFrom
    /\ phish.in.baseURL \in BrokenTemplates
    /\ phish.out.err = "failed to parse from address"
    /\ phish.out.ctx = ZeroContext

----------------------------------------------------------------------------
(* Claims about ValidateTemplate (SpecValidate) *)

\* C6: whether ValidateTemplate(text) succeeds depends on text alone: every
\* validation of the same text, at any time, has the same outcome.
C6_SameTextSameOutcome ==
    \A text \in TemplateTexts : Cardinality(validated[text]) <= 1

----------------------------------------------------------------------------
(* Claims about PostTemplate and PutTemplate (SpecTemplates) *)

\* C10: every row of the templates table has a HeaderProfile that is a key of
\* the registry; an empty HeaderProfile is replaced by "default", one that is
\* not a key makes the call return ErrInvalidHeaderProfile, and a call whose
\* validation fails issues no database statement.
C10_WrittenProfilesAreRegistryKeys ==
    /\ \A id \in DOMAIN templates :
          /\ templates[id].HeaderProfile \in DOMAIN registry
          /\ templates[id].HeaderProfile # ""
    /\ request.pc = "returned" =>
          /\ request.arg.HeaderProfile = "" => request.t.HeaderProfile = "default"
          /\ request.arg.HeaderProfile \notin DOMAIN registry \cup {""} =>
                request.err = ErrInvalidHeaderProfile
          /\ request.err \in ValidationErrors => request.statements = <<>>

C10_Witness ==
    /\ request.pc = "returned"
    /\ request.op = "PutTemplate"
    /\ request.arg.HeaderProfile = ""
    /\ request.err = "nil"
    /\ templates[request.t.Id].HeaderProfile = "default"

====
